---- MODULE Spec2Model ----
(***************************************************************************)
(* Model of scripts/generate_plots.py: a one-pass script that loads the    *)
(* benchmark table results/performance_data.csv, draws two figures and     *)
(* prints a statistical summary.  The script is a straight line of         *)
(* statements; pc is the statement block about to run, and any statement   *)
(* that raises ends the run (status = "failed") at that block.             *)
(***************************************************************************)
EXTENDS Integers, Sequences, FiniteSets

VARIABLES
    file,               \* results/performance_data.csv as found on disk
    pc,                 \* the block of the script about to run
    status,             \* "running" | "done" | "failed"
    error,              \* the exception that ended the run, or "none"
    df,                 \* the DataFrame (sequence of rows)
    graph_types,        \* line 36
    prim_times,         \* line 37
    kruskal_times,      \* line 38
    performance_ratio,  \* line 54
    fig,                \* panels drawn on the current figure
    images,             \* image files written by plt.savefig
    report              \* lines printed to standard output

vars == <<file, pc, status, error, df, graph_types, prim_times, kruskal_times,
          performance_ratio, fig, images, report>>

----------------------------------------------------------------------------
(* Bounds of the model *)

MaxRows == 3

----------------------------------------------------------------------------
(* Numbers.  Cell values are small naturals; derived floats are kept as    *)
(* exact fractions, with the two IEEE specials a float division can give.  *)

Num(n, d) == [tag |-> "num", num |-> n, den |-> d]
NaN == [tag |-> "nan", num |-> 0, den |-> 1]
Inf == [tag |-> "inf", num |-> 1, den |-> 0]

RECURSIVE SumSeq(_)
SumSeq(s) == IF s = <<>> THEN 0 ELSE Head(s) + SumSeq(Tail(s))

Column(t, c) == [i \in 1..Len(t) |-> t[i][c]]

\* Series.mean(): NaN for a count of 0, else sum/count.
Mean(s) == IF Len(s) = 0 THEN NaN ELSE Num(SumSeq(s), Len(s))

\* Series / Series on floats: x/0 is inf, 0/0 is nan, nothing raises.
Divide(a, b) == IF b # 0 THEN Num(a, b) ELSE IF a = 0 THEN NaN ELSE Inf

\* f"{x:.Nf}": the nearest multiple of 1/scale, an exact tie to the even one;
\* nan prints as "nan".
RoundHalfEven(n, d) ==
    LET q == n \div d
        r == n % d
    IN  IF 2 * r < d THEN q
        ELSE IF 2 * r > d THEN q + 1
        ELSE IF q % 2 = 0 THEN q ELSE q + 1

Format(x, scale) ==
    IF x.tag = "num" THEN Num(RoundHalfEven(x.num * scale, x.den), scale) ELSE x

----------------------------------------------------------------------------
(* The input file *)

Columns == {"Vertices", "Graph_Type", "Prim_Time_ms", "Kruskal_Time_ms",
            "Prim_Operations", "Kruskal_Operations", "Prim_Cost", "Kruskal_Cost"}

Row(v, g, at, bt, ao, bo, ac, bc) ==
    [Vertices |-> v, Graph_Type |-> g, Prim_Time_ms |-> at, Kruskal_Time_ms |-> bt,
     Prim_Operations |-> ao, Kruskal_Operations |-> bo, Prim_Cost |-> ac,
     Kruskal_Cost |-> bc]

Labels == <<"Small", "Medium", "Large", "Extra">>
Thresholds == <<30, 300, 1000, 2000>>

Times == {0, 1, 3}
TimeRows == {Row(20, "Small", at, bt, 100, 80, 50, 50) : at \in Times, bt \in Times}
GroupRows == {Row(20, g, t[1], t[2], 100, 80, 50, 50) :
                 g \in {"Small", "Large", "Dense"}, t \in {<<1, 2>>, <<4, 1>>}}
LabelRows == {Row(v, g, 1, 2, 100, 80, 50, 50) :
                 v \in {20, 500}, g \in {"Small", "Medium", "Large", "Extra", "Dense"}}
CostRows == {Row(20, "Small", 1, 2, 100, 80, ac, bc) : ac \in {70, 71}, bc \in {70, 71}}
OpsRows == {Row(20, "Small", 1, 2, ao, bo, 50, 50) : ao \in {0, 1, 2}, bo \in {1, 2}}

Tables(R) == UNION {[1..n -> R] : n \in 0..MaxRows}

Files ==
    [present : {TRUE}, missing : {"none"},
     rows : Tables(TimeRows) \cup Tables(GroupRows) \cup Tables(LabelRows)
            \cup Tables(CostRows) \cup Tables(OpsRows)]
    \cup [present : BOOLEAN, missing : Columns \cup {"none"}, rows : Tables(CostRows)]

\* df['c'] raises KeyError when the header has no column c.
Has(c) == file.missing # c

\* pd.read_csv: the frame has the columns the header names, whichever they are.
ReadCsv(f) ==
    [i \in 1..Len(f.rows) |-> [c \in Columns \ {f.missing} |-> f.rows[i][c]]]

----------------------------------------------------------------------------
(* The script's blocks, in source order *)

Stages == <<"load", "plot_times", "plot_operations", "group_times", "ratio",
            "save_performance", "save_complexity", "report_summary",
            "report_averages", "report_comparison", "report_cost", "end">>

Pos(s) == CHOOSE i \in DOMAIN Stages : Stages[i] = s

\* The block s has run to its end.
Completed(s) == Pos(pc) > Pos(s)

Line(kind, label, value, flag) ==
    [kind |-> kind, label |-> label, value |-> value, flag |-> flag]

Header(title) == Line("header", title, Num(0, 1), TRUE)

Count(n) == Num(n, 1)

----------------------------------------------------------------------------
(* The computations of the script, as operators over the table *)

Range(s) == {s[i] : i \in DOMAIN s}

\* Series.unique(): the distinct values in order of first appearance.
RECURSIVE Unique(_)
Unique(s) ==
    IF s = <<>> THEN <<>>
    ELSE LET u == Unique(SubSeq(s, 1, Len(s) - 1))
             x == s[Len(s)]
         IN  IF x \in Range(u) THEN u ELSE Append(u, x)

\* Variant with the row filter dropped.
AllRows(t, gt) == t
\* df[df['Graph_Type'] == gt]
RowsOfType(t, gt) == SelectSeq(t, LAMBDA r : r.Graph_Type = gt)

\* lines 37-38: [df[df['Graph_Type'] == gt][c].mean() for gt in graph_types]
GroupMeans(t, types, c) ==
    [k \in 1..Len(types) |-> Mean(Column(RowsOfType(t, types[k]), c))]

\* line 54: df['Prim_Time_ms'] / df['Kruskal_Time_ms']
PerformanceRatio(t) ==
    [i \in 1..Len(t) |-> Divide(t[i].Prim_Time_ms, t[i].Kruskal_Time_ms)]

\* lines 95-98: len(df[df['Graph_Type'] == label]) for the k-th label; the
\* "(< N vertices)" of the printed text is not consulted
\* (CountBelowThreshold is the variant that filters on Vertices instead).
CountBelowThreshold(t, k) ==
    Len(SelectSeq(t, LAMBDA r : r.Vertices < Thresholds[k]))
CategoryCount(t, k) == Len(RowsOfType(t, Labels[k]))

CategoryText == <<"Small graphs (< 30 vertices)", "Medium graphs (< 300 vertices)",
                  "Large graphs (< 1000 vertices)", "Extra graphs (< 2000 vertices)">>

\* line 107
PrimFasterCount(t) ==
    Len(SelectSeq(t, LAMBDA r : r.Prim_Time_ms < r.Kruskal_Time_ms))

\* line 108 (KruskalNotSlowerCount is the variant with <= for <)
KruskalNotSlowerCount(t) ==
    Len(SelectSeq(t, LAMBDA r : r.Kruskal_Time_ms <= r.Prim_Time_ms))
KruskalFasterCount(t) ==
    Len(SelectSeq(t, LAMBDA r : r.Kruskal_Time_ms < r.Prim_Time_ms))

\* line 113
CostMatches(t) == Len(SelectSeq(t, LAMBDA r : r.Prim_Cost = r.Kruskal_Cost))

\* line 114: the check mark is printed iff cost_matches == len(df)
\* (AnyCostMatches is the variant that tests cost_matches > 0)
AnyCostMatches(t) == CostMatches(t) > 0
CostsVerified(t) == CostMatches(t) = Len(t)

\* lines 93-98
SummaryLines(t) ==
    <<Header("Performance Analysis Summary"),
      Line("total", "Total graphs analyzed", Count(Len(t)), TRUE)>>
    \o [k \in 1..4 |-> Line("category", CategoryText[k], Count(CategoryCount(t, k)), TRUE)]

\* lines 100-104
AverageLines(t) ==
    <<Header("Average Performance Metrics"),
      Line("average", "Prim_Time_ms", Format(Mean(Column(t, "Prim_Time_ms")), 100), TRUE),
      Line("average", "Kruskal_Time_ms", Format(Mean(Column(t, "Kruskal_Time_ms")), 100), TRUE),
      Line("average", "Prim_Operations", Format(Mean(Column(t, "Prim_Operations")), 1), TRUE),
      Line("average", "Kruskal_Operations", Format(Mean(Column(t, "Kruskal_Operations")), 1), TRUE)>>

\* lines 106-110
ComparisonLines(t) ==
    <<Header("Performance Comparison"),
      Line("faster", "Prim", Count(PrimFasterCount(t)), TRUE),
      Line("faster", "Kruskal", Count(KruskalFasterCount(t)), TRUE)>>

\* line 114
CostLine(t) ==
    Line("correctness", "MST costs match in all", Count(CostMatches(t)), CostsVerified(t))

----------------------------------------------------------------------------
(* The run *)

Raise(e) ==
    /\ status' = "failed"
    /\ error' = e
    /\ pc' = pc

Init ==
    /\ file \in Files
    /\ pc = "load"
    /\ status = "running"
    /\ error = "none"
    /\ df = <<>>
    /\ graph_types = <<>>
    /\ prim_times = <<>>
    /\ kruskal_times = <<>>
    /\ performance_ratio = <<>>
    /\ fig = <<>>
    /\ images = <<>>
    /\ report = <<>>

\* line 11: df = pd.read_csv(...).  A header that lacks a column loads.
Load ==
    /\ status = "running" /\ pc = "load"
    /\ IF file.present
         THEN /\ df' = ReadCsv(file)
              /\ pc' = "plot_times"
              /\ UNCHANGED <<status, error>>
         ELSE /\ Raise("FileNotFoundError")
              /\ UNCHANGED df
    /\ UNCHANGED <<file, graph_types, prim_times, kruskal_times,
                   performance_ratio, fig, images, report>>

\* lines 14-24
PlotTimes ==
    /\ status = "running" /\ pc = "plot_times"
    /\ IF Has("Vertices") /\ Has("Prim_Time_ms") /\ Has("Kruskal_Time_ms")
         THEN /\ fig' = <<"time_vs_size">>
              /\ pc' = "plot_operations"
              /\ UNCHANGED <<status, error>>
         ELSE /\ Raise("KeyError")
              /\ UNCHANGED fig
    /\ UNCHANGED <<file, df, graph_types, prim_times, kruskal_times,
                   performance_ratio, images, report>>

\* lines 26-33
PlotOperations ==
    /\ status = "running" /\ pc = "plot_operations"
    /\ IF Has("Prim_Operations") /\ Has("Kruskal_Operations")
         THEN /\ fig' = Append(fig, "operations_vs_size")
              /\ pc' = "group_times"
              /\ UNCHANGED <<status, error>>
         ELSE /\ Raise("KeyError")
              /\ UNCHANGED fig
    /\ UNCHANGED <<file, df, graph_types, prim_times, kruskal_times,
                   performance_ratio, images, report>>

\* lines 35-51
GroupTimes ==
    /\ status = "running" /\ pc = "group_times"
    /\ IF Has("Graph_Type")
         THEN /\ graph_types' = Unique(Column(df, "Graph_Type"))
              /\ prim_times' = GroupMeans(df, graph_types', "Prim_Time_ms")
              /\ kruskal_times' = GroupMeans(df, graph_types', "Kruskal_Time_ms")
              /\ fig' = Append(fig, "average_time_by_type")
              /\ pc' = "ratio"
              /\ UNCHANGED <<status, error>>
         ELSE /\ Raise("KeyError")
              /\ UNCHANGED <<graph_types, prim_times, kruskal_times, fig>>
    /\ UNCHANGED <<file, df, performance_ratio, images, report>>

\* lines 53-61: the ratio series goes to scatter() as computed
Ratio ==
    /\ status = "running" /\ pc = "ratio"
    /\ performance_ratio' = PerformanceRatio(df)
    /\ fig' = Append(fig, "performance_ratio")
    /\ pc' = "save_performance"
    /\ UNCHANGED <<file, status, error, df, graph_types, prim_times,
                   kruskal_times, images, report>>

\* plt.savefig: the write succeeds or raises OSError
SaveFig(name, next) ==
    \E written \in BOOLEAN :
        IF written
          THEN /\ images' = Append(images, name)
               /\ pc' = next
               /\ UNCHANGED <<status, error>>
          ELSE /\ Raise("OSError")
               /\ UNCHANGED images

\* lines 63-65
SavePerformance ==
    /\ status = "running" /\ pc = "save_performance"
    /\ SaveFig("results/performance_analysis.png", "save_complexity")
    /\ UNCHANGED <<file, df, graph_types, prim_times, kruskal_times,
                   performance_ratio, fig, report>>

\* lines 67-90
SaveComplexity ==
    /\ status = "running" /\ pc = "save_complexity"
    /\ fig' = <<"complexity">>
    /\ SaveFig("results/complexity_analysis.png", "report_summary")
    /\ UNCHANGED <<file, df, graph_types, prim_times, kruskal_times,
                   performance_ratio, report>>

\* lines 92-98
ReportSummary ==
    /\ status = "running" /\ pc = "report_summary"
    /\ report' = report \o SummaryLines(df)
    /\ pc' = "report_averages"
    /\ UNCHANGED <<file, status, error, df, graph_types, prim_times,
                   kruskal_times, performance_ratio, fig, images>>

\* lines 100-104 (ReportAveragesDividing is the variant that computes
\* sum / len by hand and so raises on an empty table)
ReportAveragesDividing ==
    /\ status = "running" /\ pc = "report_averages"
    /\ IF Len(df) = 0
         THEN /\ Raise("ZeroDivisionError")
              /\ report' = Append(report, Header("Average Performance Metrics"))
         ELSE /\ report' = report \o AverageLines(df)
              /\ pc' = "report_comparison"
              /\ UNCHANGED <<status, error>>
    /\ UNCHANGED <<file, df, graph_types, prim_times, kruskal_times,
                   performance_ratio, fig, images>>
ReportAverages ==
    /\ status = "running" /\ pc = "report_averages"
    /\ report' = report \o AverageLines(df)
    /\ pc' = "report_comparison"
    /\ UNCHANGED <<file, status, error, df, graph_types, prim_times,
                   kruskal_times, performance_ratio, fig, images>>

\* lines 106-110
ReportComparison ==
    /\ status = "running" /\ pc = "report_comparison"
    /\ report' = report \o ComparisonLines(df)
    /\ pc' = "report_cost"
    /\ UNCHANGED <<file, status, error, df, graph_types, prim_times,
                   kruskal_times, performance_ratio, fig, images>>

\* lines 112-114: the section header is printed before the cost columns are read
ReportCost ==
    /\ status = "running" /\ pc = "report_cost"
    /\ IF Has("Prim_Cost") /\ Has("Kruskal_Cost")
         THEN /\ report' = report \o <<Header("Cost Verification"), CostLine(df)>>
              /\ pc' = "end"
              /\ status' = "done"
              /\ UNCHANGED error
         ELSE /\ report' = Append(report, Header("Cost Verification"))
              /\ Raise("KeyError")
    /\ UNCHANGED <<file, df, graph_types, prim_times, kruskal_times,
                   performance_ratio, fig, images>>

Next ==
    \/ Load
    \/ PlotTimes
    \/ PlotOperations
    \/ GroupTimes
    \/ Ratio
    \/ SavePerformance
    \/ SaveComplexity
    \/ ReportSummary
    \/ ReportAverages
    \/ ReportComparison
    \/ ReportCost

Spec == Init /\ [][Next]_vars

----------------------------------------------------------------------------
(* Properties.  They speak of the table by row index and of the printed     *)
(* report by line, independently of how the script computes them.          *)

RowIds == 1..Len(df)

LinesOf(kind) == SelectSeq(report, LAMBDA l : l.kind = kind)

RECURSIVE SumOver(_, _)
SumOver(I, c) ==
    IF I = {} THEN 0
    ELSE LET i == CHOOSE x \in I : TRUE IN df[i][c] + SumOver(I \ {i}, c)

ValidFile == file.present /\ file.missing = "none"

PrimFaster == {i \in RowIds : df[i].Prim_Time_ms < df[i].Kruskal_Time_ms}
KruskalFaster == {i \in RowIds : df[i].Kruskal_Time_ms < df[i].Prim_Time_ms}
Ties == {i \in RowIds : df[i].Prim_Time_ms = df[i].Kruskal_Time_ms}
CostAgree == {i \in RowIds : df[i].Prim_Cost = df[i].Kruskal_Cost}
CostDiffer == {i \in RowIds : df[i].Prim_Cost # df[i].Kruskal_Cost}
OfType(g) == {i \in RowIds : df[i].Graph_Type = g}
InBucket(k) == {i \in RowIds : /\ df[i].Vertices < Thresholds[k]
                               /\ (k = 1 \/ df[i].Vertices >= Thresholds[k - 1])}
FirstRow(g) == CHOOSE i \in OfType(g) : \A j \in OfType(g) : i <= j

\* C1: once the comparison section is printed, its two counts are the numbers
\* of rows where Prim is strictly faster and where Kruskal is strictly faster,
\* and together with the number of ties they add up to the row count, no row
\* being in two of the three buckets.
HeadToHeadPartition ==
    Completed("report_comparison") =>
        LET f == LinesOf("faster")
        IN  /\ Len(f) = 2
            /\ f[1].value = Count(Cardinality(PrimFaster))
            /\ f[2].value = Count(Cardinality(KruskalFaster))
            /\ f[1].value.num + f[2].value.num + Cardinality(Ties) = Len(df)
            /\ PrimFaster \cap KruskalFaster = {}
            /\ PrimFaster \cap Ties = {}
            /\ KruskalFaster \cap Ties = {}

HeadToHeadWitness ==
    /\ Completed("report_comparison")
    /\ PrimFaster # {} /\ KruskalFaster # {} /\ Ties # {}

\* C2: the correctness line carries the number of rows with equal costs, which
\* is at most the row count, and its mark is set iff that number is the row
\* count: set for an empty table, cleared as soon as one row's costs differ.
CostFlagIffAllMatch ==
    status = "done" =>
        LET c == LinesOf("correctness")
        IN  /\ Len(c) = 1
            /\ c[1].value = Count(Cardinality(CostAgree))
            /\ c[1].value.num <= Len(df)
            /\ c[1].flag <=> (c[1].value.num = Len(df))
            /\ c[1].flag <=> (CostDiffer = {})

CostFlagWitness ==
    /\ status = "done"
    /\ CostAgree # {} /\ CostDiffer # {}
    /\ ~LinesOf("correctness")[1].flag

\* C3: the ratio series has one entry per row, in row order; the entry is the
\* "ratio undefined" marker exactly for the rows with Kruskal_Time_ms = 0 and
\* the quotient of the two times otherwise.
RatioUndefinedIsMarked ==
    Completed("ratio") =>
        /\ Len(performance_ratio) = Len(df)
        /\ \A i \in RowIds :
              IF df[i].Kruskal_Time_ms = 0
                THEN performance_ratio[i].tag = "undefined"
                ELSE performance_ratio[i] = Num(df[i].Prim_Time_ms, df[i].Kruskal_Time_ms)

\* C4: with a complete header and no data rows the load gives an empty table
\* and no computation raises: the group summary is empty, the four averages
\* are printed as nan, every count is 0 and the whole report is printed.
EmptyTableRunsThrough ==
    (ValidFile /\ file.rows = <<>>) =>
        /\ error \in {"none", "OSError"}
        /\ Completed("load") => df = <<>>
        /\ Completed("group_times") =>
              graph_types = <<>> /\ prim_times = <<>> /\ kruskal_times = <<>>
        /\ Completed("report_averages") =>
              /\ Len(LinesOf("average")) = 4
              /\ \A i \in 1..4 : LinesOf("average")[i].value = NaN
        /\ status = "done" =>
              /\ Len(report) = 16
              /\ \A i \in DOMAIN report :
                    report[i].kind \in {"total", "category", "faster", "correctness"}
                        => report[i].value = Count(0)

EmptyTableWitness ==
    /\ ValidFile /\ file.rows = <<>>
    /\ status = "done"
    /\ Len(LinesOf("average")) = 4

\* C5: the group summary has exactly one entry per distinct Graph_Type of the
\* table, in order of first appearance, and the entry's two means are the sums
\* of Prim_Time_ms and of Kruskal_Time_ms over exactly the rows of that type,
\* divided by the number of those rows.
GroupSummaryPerCategory ==
    Completed("group_times") =>
        LET types == {df[i].Graph_Type : i \in RowIds}
            n == Len(graph_types)
        IN  /\ n = Cardinality(types)
            /\ Range(graph_types) = types
            /\ Len(prim_times) = n /\ Len(kruskal_times) = n
            /\ \A k, l \in 1..n :
                  k < l => FirstRow(graph_types[k]) < FirstRow(graph_types[l])
            /\ \A k \in 1..n :
                  LET I == OfType(graph_types[k])
                  IN  /\ prim_times[k] = Num(SumOver(I, "Prim_Time_ms"), Cardinality(I))
                      /\ kruskal_times[k] =
                            Num(SumOver(I, "Kruskal_Time_ms"), Cardinality(I))

GroupSummaryWitness ==
    /\ Completed("group_times")
    /\ Len(df) = 3 /\ Len(graph_types) = 2
    /\ df[1].Graph_Type = "Small" /\ df[2].Graph_Type = "Dense"
    /\ df[3].Graph_Type = "Small"
    /\ df[1].Prim_Time_ms # df[3].Prim_Time_ms
    /\ prim_times[1].den = 2

\* C6 (its output part): a run ended by a missing input file or by a column
\* missing from the header has written no image and printed no report line.
FailedLoadEmitsNothing ==
    error \in {"FileNotFoundError", "KeyError"} => images = <<>> /\ report = <<>>

\* C7: the report does not wait on the rendering: when the input is valid, a
\* run that has ended, or that has written an image, has printed every report
\* line, the correctness line being the last.
ReportComplete == Len(LinesOf("correctness")) = 1

ReportSurvivesRenderFailure ==
    ValidFile => /\ status # "running" => ReportComplete
                 /\ images # <<>> => ReportComplete

\* C8: what is printed is always a prefix of: summary header, total, the four
\* category counts for Small, Medium, Large, Extra, averages header, the
\* averages of Prim time, Kruskal time, Prim operations, Kruskal operations,
\* comparison header, Prim-faster, Kruskal-faster, cost header, correctness;
\* a finished run has printed all of it; each category count is the number of
\* rows carrying that label, whatever their Vertices, and each average is the
\* column's mean rounded to the printed precision.
ExpectedKinds ==
    <<"header", "total", "category", "category", "category", "category",
      "header", "average", "average", "average", "average",
      "header", "faster", "faster", "header", "correctness">>

ExpectedLabels ==
    <<"Performance Analysis Summary", "Total graphs analyzed">> \o CategoryText
    \o <<"Average Performance Metrics", "Prim_Time_ms", "Kruskal_Time_ms",
         "Prim_Operations", "Kruskal_Operations",
         "Performance Comparison", "Prim", "Kruskal",
         "Cost Verification", "MST costs match in all">>

IsRounded(v, c, scale) ==
    IF Len(df) = 0 THEN v = NaN
    ELSE /\ v.tag = "num" /\ v.den = scale
         /\ LET d == v.num * Len(df) - SumOver(RowIds, c) * v.den
            IN  2 * d <= Len(df) /\ -2 * d <= Len(df)

ReportSectionsInOrder ==
    /\ Len(report) <= Len(ExpectedKinds)
    /\ \A i \in DOMAIN report :
          report[i].kind = ExpectedKinds[i] /\ report[i].label = ExpectedLabels[i]
    /\ status = "done" => Len(report) = Len(ExpectedKinds)
    /\ Len(report) >= 6 =>
          /\ report[2].value = Count(Len(df))
          /\ \A k \in 1..4 :
                report[2 + k].value = Count(Cardinality(OfType(Labels[k])))
    /\ Len(report) >= 11 =>
          /\ IsRounded(report[8].value, "Prim_Time_ms", 100)
          /\ IsRounded(report[9].value, "Kruskal_Time_ms", 100)
          /\ IsRounded(report[10].value, "Prim_Operations", 1)
          /\ IsRounded(report[11].value, "Kruskal_Operations", 1)

ReportSectionsWitness ==
    /\ status = "done"
    /\ \E i \in RowIds : df[i].Graph_Type = "Small" /\ df[i].Vertices >= 30
    /\ \E i \in RowIds : df[i].Graph_Type = "Extra"

\* C9: the report carries both framings of the category counts: for every
\* Graph_Type present a line with the number of rows of that type, and for
\* every size bucket (< 30, < 300, < 1000, < 2000) a line with the number of
\* rows whose Vertices fall in the bucket.
CategoryValues == {l.value : l \in Range(LinesOf("category"))}

BothCountFramingsReported ==
    status = "done" =>
        /\ \A g \in {df[i].Graph_Type : i \in RowIds} :
              Count(Cardinality(OfType(g))) \in CategoryValues
        /\ \A k \in 1..4 : Count(Cardinality(InBucket(k))) \in CategoryValues

\* C10: the cross-check's output names each row whose two costs differ: the
\* rows it identifies are exactly the rows with Prim_Cost # Kruskal_Cost.
IdentifiedMismatches == {l.value.num : l \in Range(LinesOf("mismatch"))}

MismatchesIndividuallyReported ==
    status = "done" => IdentifiedMismatches = CostDiffer

====
